---- MODULE Spec2Model ----
(***************************************************************************)
(* Model of validate_ontology.py, the bundle validator of the EvidenceOS   *)
(* TBI ontology: the eight consistency rules as operators over the loaded  *)
(* module trees, and main() as a state machine (load, schema stage,        *)
(* consistency stage, report).                                             *)
(*                                                                         *)
(* Representation of YAML values.  A value is a record tagged by k:        *)
(*   [k |-> "absent"]            the key is not in the mapping             *)
(*   [k |-> "none"]              null, or what dict.get returns for absent *)
(*   [k |-> "num", c, e]         the number c * 0.5 + e * 1e-10            *)
(*   [k |-> "int", v]            an integer scalar                         *)
(*   [k |-> "list", v]           a list of integers                        *)
(*   [k |-> "set", v]            a list of strings, read only through set()*)
(* Chains of .get(key, {}) are flattened: an absent intermediate mapping   *)
(* and an absent leaf both give None at the leaf.  Documents are mappings  *)
(* (the validator does not handle other top-level shapes).                 *)
(***************************************************************************)
EXTENDS Integers, Sequences, FiniteSets, TLC

VARIABLES
    pc,          \* position of main: "load", "validate", "rules", "report", "done", "raised";
                 \* of a rule function called on its own: "call", "returned"
    idx,         \* loop index: module being loaded / schema-validated, or rule about to run
    args,        \* [skip_schema]: the parsed command line (line 319)
    jsonschema,  \* TRUE iff the import at lines 15-18 succeeded
    loaded,      \* dict module name -> module tree (line 324)
    errors,      \* list of error diagnostics (line 321)
    warnings,    \* list of warning diagnostics (line 322)
    schema_defs, \* the "$defs" names of schema.json once read (line 348)
    out,         \* lines printed on standard output
    rc,          \* value returned by main: -1 while running
    hist,        \* trace of main: load attempts, schema calls, rule calls, in order
    call,        \* the latest validate_schema call: violations of the instance, errors before it
    input        \* arguments of the rule function under study (rule-level specifications)

vars == <<pc, idx, args, jsonschema, loaded, errors, warnings, schema_defs, out, rc, hist, call, input>>

----------------------------------------------------------------------------
(* Bounds *)

\* entries in the framework's biomarker variable list
MaxVars == 2
\* length of a canonical_phase_ids list
MaxIds == 2
\* length of a data element's temporal_phases list
MaxRefs == 2
\* length of core_cdes
MaxCore == 10
\* supplementary elements other than tapvi and tamvi
MaxOther == 18
\* violations of one module against its schema definition
MaxViolations == 2

----------------------------------------------------------------------------
(* Values *)

None == [k |-> "none"]
Absent == [k |-> "absent"]
Num(c, e) == [k |-> "num", c |-> c, e |-> e]
IntV(n) == [k |-> "int", v |-> n]
ListV(s) == [k |-> "list", v |-> s]
SetV(s) == [k |-> "set", v |-> s]

Abs(n) == IF n < 0 THEN -n ELSE n

Min(S) == CHOOSE n \in S : \A m \in S : n <= m

Max(S) == CHOOSE n \in S : \A m \in S : n >= m

\* dict.get(key): None when the key is absent
Get(v) == IF v.k = "absent" THEN None ELSE v

\* Python == on scalars and lists of the kinetics tables
PyEq(a, b) == a.k = b.k /\ a.v = b.v

Err(kind, subject, detail) == <<kind, subject, detail>>

----------------------------------------------------------------------------
(* Module-level tables *)

YAML_FILES ==
    << "cbim_framework", "clinical_entities", "imaging_cdes", "temporal_phases",
       "provenance", "implementation_science", "methodology_extraction" >>

Modules == {YAML_FILES[i] : i \in 1..Len(YAML_FILES)}

EXPECTED_THRESHOLDS == [gfap_pg_ml |-> Num(60, 0), uchl1_pg_ml |-> Num(720, 0)]

KineticsKeys ==
    << "gfap_clearance_half_life_hours", "gfap_clearance_half_life_range_hours",
       "uchl1_clearance_half_life_hours", "uchl1_clearance_half_life_range_hours" >>

EXPECTED_KINETICS ==
    [ gfap_clearance_half_life_hours |-> IntV(24),
      gfap_clearance_half_life_range_hours |-> ListV(<<24, 36>>),
      uchl1_clearance_half_life_hours |-> IntV(8),
      uchl1_clearance_half_life_range_hours |-> ListV(<<7, 9>>) ]

\* tol = 1e-9 in units of 1e-10
Tol == 10

\* identifiers in sorted() order
PhaseUniverse == << "acute", "chronic", "hyperacute", "subacute" >>

ContextUniverse == << "adult", "mild_tbi", "pediatric" >>

MappingKeyUniverse == << "dicom_sr_code", "fhir_observation_code", "omop_concept_id", "radlex_id" >>

\* sorted(S) for S a set of members of the sorted sequence universe
Sorted(universe, S) == SelectSeq(universe, LAMBDA x : x \in S)

Range(s) == {s[i] : i \in 1..Len(s)}

RECURSIVE Concat(_)
Concat(ss) == IF ss = <<>> THEN <<>> ELSE Head(ss) \o Concat(Tail(ss))

----------------------------------------------------------------------------
(* Rule 1: validate_threshold_consistency *)

nearly_equal(a, b) == a.c = b.c /\ Abs(a.e - b.e) <= Tol

\* variant: the last entry with the matching id decides
get_biomarker_threshold_last(cbim, analyte_id) ==
    LET variables == cbim.variables
        hits == {i \in 1..Len(variables) : variables[i].id = analyte_id}
    IN  IF hits = {} THEN None ELSE Get(variables[Max(hits)].ct_threshold)

get_biomarker_threshold(cbim, analyte_id) ==
    LET variables == cbim.variables
        hits == {i \in 1..Len(variables) : variables[i].id = analyte_id}
    IN  IF hits = {} THEN None ELSE Get(variables[Min(hits)].ct_threshold)

\* the if/elif pair applied to one looked-up value
ThresholdCheck(value, analyte_id, file) ==
    IF value = None
    THEN << Err("missing", file, <<analyte_id>>) >>
    ELSE IF ~nearly_equal(value, EXPECTED_THRESHOLDS[analyte_id])
         THEN << Err("mismatch", file, <<analyte_id, value, EXPECTED_THRESHOLDS[analyte_id]>>) >>
         ELSE <<>>

validate_threshold_consistency(cbim, provenance) ==
    LET cbim_gfap == get_biomarker_threshold(cbim, "gfap_pg_ml")
        cbim_uchl1 == get_biomarker_threshold(cbim, "uchl1_pg_ml")
        prov_gfap == Get(provenance.threshold_provenance.gfap_ct_threshold.value)
        prov_uchl1 == Get(provenance.threshold_provenance.uchl1_ct_threshold.value)
    IN  ThresholdCheck(cbim_gfap, "gfap_pg_ml", "cbim_framework.yaml")
        \o ThresholdCheck(cbim_uchl1, "uchl1_pg_ml", "cbim_framework.yaml")
        \o ThresholdCheck(prov_gfap, "gfap_pg_ml", "provenance.yaml")
        \o ThresholdCheck(prov_uchl1, "uchl1_pg_ml", "provenance.yaml")

----------------------------------------------------------------------------
(* Rule 2: validate_provenance_applicability *)

ApplicabilityCheck(threshold_provenance, field) ==
    LET applies_to == Get(threshold_provenance[field].applies_to)
        missing == Sorted(ContextUniverse, {"adult", "mild_tbi"} \ applies_to.v)
    IN  IF applies_to = None
        THEN << Err("missing_applies_to", "provenance.yaml", <<field>>) >>
        ELSE IF missing # <<>>
             THEN << Err("missing_contexts", "provenance.yaml", <<field, missing>>) >>
             ELSE <<>>

validate_provenance_applicability(provenance) ==
    ApplicabilityCheck(provenance.threshold_provenance, "gfap_ct_threshold")
    \o ApplicabilityCheck(provenance.threshold_provenance, "uchl1_ct_threshold")

----------------------------------------------------------------------------
(* Rule 3: validate_temporal_kinetics *)

\* truth value of a mapping: it has at least one key
Truthy(mapping) == \E key \in DOMAIN mapping : mapping[key].k # "absent"

LegacyCheck(windows, key) ==
    LET actual == Get(windows[key])
    IN  IF actual = None
        THEN << Err("missing_window", "temporal_phases.yaml", <<key>>) >>
        ELSE IF ~PyEq(actual, EXPECTED_KINETICS[key])
             THEN << Err("kinetics_mismatch", key, <<actual, EXPECTED_KINETICS[key]>>) >>
             ELSE <<>>

ClearanceCheck(range, analyte, key) ==
    IF range = None
    THEN << Err("missing_clearance", "temporal_phases.yaml", <<analyte>>) >>
    ELSE IF ~PyEq(range, EXPECTED_KINETICS[key])
         THEN << Err("range_mismatch", analyte, <<range, EXPECTED_KINETICS[key]>>) >>
         ELSE <<>>

\* variant: the legacy branch does not return, the v3 checks follow it
validate_temporal_kinetics_fallthrough(temporal) ==
    LET subacute == temporal.phases.subacute
        windows == subacute.key_biomarker_windows
        clearance == subacute.biomarker_clearance_kinetics
    IN  (IF Truthy(windows)
         THEN Concat([i \in 1..Len(KineticsKeys) |-> LegacyCheck(windows, KineticsKeys[i])])
         ELSE <<>>)
        \o ClearanceCheck(Get(clearance.gfap), "gfap", "gfap_clearance_half_life_range_hours")
        \o ClearanceCheck(Get(clearance.uchl1), "uchl1", "uchl1_clearance_half_life_range_hours")

validate_temporal_kinetics(temporal) ==
    LET subacute == temporal.phases.subacute
        windows == subacute.key_biomarker_windows
        clearance == subacute.biomarker_clearance_kinetics
        gfap_range == Get(clearance.gfap)
        uchl1_range == Get(clearance.uchl1)
    IN  IF Truthy(windows)
        THEN Concat([i \in 1..Len(KineticsKeys) |-> LegacyCheck(windows, KineticsKeys[i])])
        ELSE ClearanceCheck(gfap_range, "gfap", "gfap_clearance_half_life_range_hours")
             \o ClearanceCheck(uchl1_range, "uchl1", "uchl1_clearance_half_life_range_hours")

----------------------------------------------------------------------------
(* Rule 4: validate_temporal_thresholds *)

TemporalThresholdCheck(value, analyte_id) ==
    IF value = None
    THEN << Err("missing_decision_threshold", "temporal_phases.yaml", <<analyte_id>>) >>
    ELSE IF ~nearly_equal(value, EXPECTED_THRESHOLDS[analyte_id])
         THEN << Err("temporal_mismatch", "temporal_phases.yaml",
                     <<analyte_id, value, EXPECTED_THRESHOLDS[analyte_id]>>) >>
         ELSE <<>>

validate_temporal_thresholds(temporal) ==
    LET kinetics == temporal.biomarker_kinetics
        gfap_threshold == Get(kinetics.gfap)
        uchl1_threshold == Get(kinetics.uchl1)
    IN  TemporalThresholdCheck(gfap_threshold, "gfap_pg_ml")
        \o TemporalThresholdCheck(uchl1_threshold, "uchl1_pg_ml")

----------------------------------------------------------------------------
(* Rule 5: validate_temporal_phase_ids *)

validate_temporal_phase_ids(temporal) ==
    LET canonical == temporal.schema_contract.canonical_phase_ids
        actual_ids == temporal.phases.block_ids
        missing == Sorted(PhaseUniverse, Range(canonical) \ actual_ids)
    IN  IF missing # <<>>
        THEN << Err("missing_phase_ids", "temporal_phases.yaml", missing) >>
        ELSE <<>>

----------------------------------------------------------------------------
(* Rule 6: validate_phase_alignment *)

\* used_phase_ids after the two loops over the sections
UsedPhaseIds(imaging) ==
    UNION {Range(imaging.core_cdes[i].temporal_phases) : i \in 1..Len(imaging.core_cdes)}
    \cup
    UNION {Range(imaging.supplementary_cdes[i].temporal_phases) :
              i \in 1..Len(imaging.supplementary_cdes)}

\* variant: the canonical lists are compared as sets
validate_phase_alignment_unordered(temporal, imaging) ==
    LET temporal_ids == temporal.schema_contract.canonical_phase_ids
        imaging_ids == imaging.schema_contract.canonical_phase_ids
        unknown == Sorted(PhaseUniverse, UsedPhaseIds(imaging) \ Range(temporal_ids))
    IN  (IF Range(temporal_ids) # Range(imaging_ids)
         THEN << Err("phase_mismatch", "temporal_phases.yaml", <<"imaging_cdes.yaml">>) >>
         ELSE <<>>)
        \o
        (IF unknown # <<>>
         THEN << Err("unknown_phase_ids", "imaging_cdes.yaml", unknown) >>
         ELSE <<>>)

validate_phase_alignment(temporal, imaging) ==
    LET temporal_ids == temporal.schema_contract.canonical_phase_ids
        imaging_ids == imaging.schema_contract.canonical_phase_ids
        valid_phase_ids == Range(temporal_ids)
        used_phase_ids == UsedPhaseIds(imaging)
        unknown == Sorted(PhaseUniverse, used_phase_ids \ valid_phase_ids)
    IN  (IF temporal_ids # imaging_ids
         THEN << Err("phase_mismatch", "temporal_phases.yaml", <<"imaging_cdes.yaml">>) >>
         ELSE <<>>)
        \o
        (IF unknown # <<>>
         THEN << Err("unknown_phase_ids", "imaging_cdes.yaml", unknown) >>
         ELSE <<>>)

----------------------------------------------------------------------------
(* Rule 7: validate_tapvi_and_counts *)

\* variant: the tamvi test is the elif of the tapvi test
validate_tapvi_and_counts_elif(imaging) ==
    LET core == imaging.core_cdes
        supplementary == imaging.supplementary_cdes
        ids == [i \in 1..Len(supplementary) |-> supplementary[i].id]
    IN  (IF Len(core) # 9
         THEN << Err("core_count", "imaging_cdes.yaml", <<9, Len(core)>>) >> ELSE <<>>)
        \o
        (IF Len(supplementary) # 18
         THEN << Err("supplementary_count", "imaging_cdes.yaml", <<18, Len(supplementary)>>) >>
         ELSE <<>>)
        \o
        (IF "tapvi" \notin Range(ids)
         THEN << Err("tapvi_missing", "imaging_cdes.yaml", <<>>) >>
         ELSE IF "tamvi" \in Range(ids)
              THEN << Err("tamvi_present", "imaging_cdes.yaml", <<>>) >>
              ELSE <<>>)

validate_tapvi_and_counts(imaging) ==
    LET core == imaging.core_cdes
        supplementary == imaging.supplementary_cdes
        ids == [i \in 1..Len(supplementary) |-> supplementary[i].id]
    IN  (IF Len(core) # 9
         THEN << Err("core_count", "imaging_cdes.yaml", <<9, Len(core)>>) >> ELSE <<>>)
        \o
        (IF Len(supplementary) # 18
         THEN << Err("supplementary_count", "imaging_cdes.yaml", <<18, Len(supplementary)>>) >>
         ELSE <<>>)
        \o
        (IF "tapvi" \notin Range(ids)
         THEN << Err("tapvi_missing", "imaging_cdes.yaml", <<>>) >> ELSE <<>>)
        \o
        (IF "tamvi" \in Range(ids)
         THEN << Err("tamvi_present", "imaging_cdes.yaml", <<>>) >> ELSE <<>>)

----------------------------------------------------------------------------
(* Rule 8: validate_mapping_hooks *)

modules_requiring_mappings ==
    << "cbim_framework", "clinical_entities", "imaging_cdes", "provenance",
       "implementation_science" >>

\* Result of the loop over the first n names: the errors appended and whether
\* files[name] raised KeyError on the way (errors appended before it stay).
RECURSIVE MappingLoop(_, _)
MappingLoop(files, n) ==
    IF n = 0
    THEN [errs |-> <<>>, raised |-> FALSE]
    ELSE LET before == MappingLoop(files, n - 1)
             name == modules_requiring_mappings[n]
         IN  IF before.raised
             THEN before
             ELSE IF name \notin DOMAIN files
                  THEN [errs |-> before.errs, raised |-> TRUE]
                  ELSE IF ~files[name].schema_contract.mapping_fields_optional
                       THEN [errs |-> Append(before.errs,
                                             Err("missing_mapping_flag", name, <<>>)),
                             raised |-> FALSE]
                       ELSE before

\* variant: an absent module is read as an empty mapping (files.get(name, {}))
validate_mapping_hooks_get(files) ==
    LET present == [n \in 1..Len(modules_requiring_mappings) |->
                       modules_requiring_mappings[n] \in DOMAIN files
                       /\ files[modules_requiring_mappings[n]].schema_contract.mapping_fields_optional]
        flags == Concat([n \in 1..Len(modules_requiring_mappings) |->
                            IF present[n]
                            THEN <<>>
                            ELSE << Err("missing_mapping_flag", modules_requiring_mappings[n], <<>>) >>])
        template == IF "imaging_cdes" \in DOMAIN files
                    THEN files["imaging_cdes"].standards_mapping_hooks.default_mapping_template
                    ELSE {}
        missing == Sorted(MappingKeyUniverse,
                          {"radlex_id", "dicom_sr_code", "fhir_observation_code", "omop_concept_id"}
                              \ template)
    IN  [ errs |-> IF missing # <<>>
                   THEN Append(flags, Err("template_keys", "imaging_cdes.yaml", missing))
                   ELSE flags,
          raised |-> FALSE ]

validate_mapping_hooks(files) ==
    LET flags == MappingLoop(files, Len(modules_requiring_mappings))
    IN  IF flags.raised
        THEN flags
        ELSE IF "imaging_cdes" \notin DOMAIN files
             THEN [errs |-> flags.errs, raised |-> TRUE]
             ELSE LET template == files["imaging_cdes"].standards_mapping_hooks.default_mapping_template
                      required == {"radlex_id", "dicom_sr_code", "fhir_observation_code",
                                   "omop_concept_id"}
                      missing == Sorted(MappingKeyUniverse, required \ template)
                  IN  IF missing # <<>>
                      THEN [errs |-> Append(flags.errs,
                                            Err("template_keys", "imaging_cdes.yaml", missing)),
                            raised |-> FALSE]
                      ELSE flags

----------------------------------------------------------------------------
(* Schema validation of one module *)

\* jsonschema.validate raises ValidationError for the best-matching violation
\* only, so the except clause appends once however many violations the
\* instance has; violations is the number of violations of data against
\* #/$defs/module_name.  (Path and message of the error are not modelled.)
\* variant: one error for every violation (as with iter_errors)
validate_schema_all(module_name, violations) ==
    IF ~jsonschema
    THEN <<>>
    ELSE [i \in 1..violations |-> Err("schema", module_name, <<>>)]

validate_schema(module_name, violations) ==
    IF ~jsonschema
    THEN <<>>
    ELSE IF violations > 0
         THEN << Err("schema", module_name, <<>>) >>
         ELSE <<>>

----------------------------------------------------------------------------
(* Module trees of the bundle used to drive main *)

Flag(b) == [mapping_fields_optional |-> b]

NoWindows == [key \in Range(KineticsKeys) \cup {"other"} |-> Absent]

FullTemplate == {"radlex_id", "dicom_sr_code", "fhir_observation_code", "omop_concept_id"}

Cde(id, phases) == [id |-> id, temporal_phases |-> phases]

Cdes(n, phases) == [i \in 1..n |-> Cde("cde", phases)]

GoodCbim ==
    [ variables |-> << [id |-> "gfap_pg_ml", ct_threshold |-> Num(60, 0)],
                       [id |-> "uchl1_pg_ml", ct_threshold |-> Num(720, 0)] >>,
      schema_contract |-> Flag(TRUE) ]

BadCbim ==
    [ variables |-> << [id |-> "gfap_pg_ml", ct_threshold |-> Num(59, 0)] >>,
      schema_contract |-> Flag(FALSE) ]

GoodProvenance ==
    [ threshold_provenance |->
        [ gfap_ct_threshold |-> [value |-> Num(60, 0), applies_to |-> SetV({"adult", "mild_tbi"})],
          uchl1_ct_threshold |-> [value |-> Num(720, 0),
                                  applies_to |-> SetV({"adult", "mild_tbi", "pediatric"})] ],
      schema_contract |-> Flag(TRUE) ]

BadProvenance ==
    [ threshold_provenance |->
        [ gfap_ct_threshold |-> [value |-> Num(60, 5), applies_to |-> SetV({"pediatric"})],
          uchl1_ct_threshold |-> [value |-> Absent, applies_to |-> Absent] ],
      schema_contract |-> Flag(TRUE) ]

GoodTemporal ==
    [ schema_contract |-> [canonical_phase_ids |-> <<"hyperacute", "acute", "subacute">>],
      phases |-> [ block_ids |-> {"hyperacute", "acute", "subacute", "chronic"},
                   subacute |-> [ key_biomarker_windows |-> NoWindows,
                                  biomarker_clearance_kinetics |->
                                      [gfap |-> ListV(<<24, 36>>), uchl1 |-> ListV(<<7, 9>>)] ] ],
      biomarker_kinetics |-> [gfap |-> Num(60, 0), uchl1 |-> Num(720, 0)] ]

BadTemporal ==
    [ schema_contract |-> [canonical_phase_ids |-> <<"hyperacute", "subacute", "acute">>],
      phases |-> [ block_ids |-> {"acute"},
                   subacute |-> [ key_biomarker_windows |->
                                      [NoWindows EXCEPT !["gfap_clearance_half_life_hours"] = IntV(8)],
                                  biomarker_clearance_kinetics |->
                                      [gfap |-> Absent, uchl1 |-> Absent] ] ],
      biomarker_kinetics |-> [gfap |-> Absent, uchl1 |-> Num(720, 20)] ]

GoodImaging ==
    [ schema_contract |-> [ canonical_phase_ids |-> <<"hyperacute", "acute", "subacute">>,
                            mapping_fields_optional |-> TRUE ],
      core_cdes |-> Cdes(9, <<"acute">>),
      supplementary_cdes |-> << Cde("tapvi", <<"acute", "subacute">>) >> \o Cdes(17, <<>>),
      standards_mapping_hooks |-> [default_mapping_template |-> FullTemplate] ]

BadImaging ==
    [ schema_contract |-> [ canonical_phase_ids |-> <<"hyperacute", "acute", "subacute">>,
                            mapping_fields_optional |-> FALSE ],
      core_cdes |-> Cdes(9, <<"chronic">>),
      supplementary_cdes |-> << Cde("tamvi", <<"acute">>) >> \o Cdes(16, <<>>),
      standards_mapping_hooks |-> [default_mapping_template |-> {"radlex_id"}] ]

\* the trees load_yaml can return for a module
DocVariants(module_name) ==
    CASE module_name = "cbim_framework" -> <<GoodCbim, BadCbim>>
      [] module_name = "provenance" -> <<GoodProvenance, BadProvenance>>
      [] module_name = "temporal_phases" -> <<GoodTemporal, BadTemporal>>
      [] module_name = "imaging_cdes" -> <<GoodImaging, BadImaging>>
      [] OTHER -> << [schema_contract |-> Flag(TRUE)] >>

Documents(module_name) == Range(DocVariants(module_name))

\* what schema.json can declare under "$defs"
SchemaDefChoices == {Modules, Modules \ {"methodology_extraction"}, {}}

----------------------------------------------------------------------------
(* main *)

NoCall == [module |-> "", violations |-> 0, before |-> 0]

NoInput == [rule |-> "main"]

Init ==
    /\ pc = "load"
    /\ idx = 1
    /\ args \in [skip_schema : BOOLEAN]
    /\ jsonschema \in BOOLEAN
    /\ loaded = <<>>
    /\ errors = <<>>
    /\ warnings = <<>>
    /\ schema_defs = {}
    /\ out = <<>>
    /\ rc = -1
    /\ hist = <<>>
    /\ call = NoCall
    /\ input = NoInput

ErrorLines(items) == [i \in 1..Len(items) |-> <<"ERROR", items[i]>>]

WarnLines(items) == [i \in 1..Len(items) |-> <<"WARN", items[i]>>]

OkLines ==
    << <<"OK", "Ontology validation passed">>,
       <<"OK", "Threshold constants, kinetics, TAPVI terminology, and phase alignment are consistent">> >>

\* variant: a missing file ends the loop (break instead of continue)
LoadMissing_break ==
    /\ pc = "load"
    /\ idx <= Len(YAML_FILES)
    /\ errors' = Append(errors, Err("missing_file", YAML_FILES[idx], <<>>))
    /\ hist' = Append(hist, <<"load", YAML_FILES[idx]>>)
    /\ idx' = Len(YAML_FILES) + 1
    /\ UNCHANGED <<pc, args, jsonschema, loaded, warnings, schema_defs, out, rc, call, input>>

\* loop body, lines 327-329: the file does not exist
LoadMissing ==
    /\ pc = "load"
    /\ idx <= Len(YAML_FILES)
    /\ errors' = Append(errors, Err("missing_file", YAML_FILES[idx], <<>>))
    /\ hist' = Append(hist, <<"load", YAML_FILES[idx]>>)
    /\ idx' = idx + 1
    /\ UNCHANGED <<pc, args, jsonschema, loaded, warnings, schema_defs, out, rc, call, input>>

\* loop body, lines 330-333: load_yaml raises yaml.YAMLError
LoadParseError ==
    /\ pc = "load"
    /\ idx <= Len(YAML_FILES)
    /\ errors' = Append(errors, Err("parse_error", YAML_FILES[idx], <<>>))
    /\ hist' = Append(hist, <<"load", YAML_FILES[idx]>>)
    /\ idx' = idx + 1
    /\ UNCHANGED <<pc, args, jsonschema, loaded, warnings, schema_defs, out, rc, call, input>>

\* loop body, lines 330-331: load_yaml returns the module tree
LoadOk ==
    /\ pc = "load"
    /\ idx <= Len(YAML_FILES)
    /\ \E doc \in Documents(YAML_FILES[idx]) :
          loaded' = [m \in DOMAIN loaded \cup {YAML_FILES[idx]} |->
                        IF m = YAML_FILES[idx] THEN doc ELSE loaded[m]]
    /\ hist' = Append(hist, <<"load", YAML_FILES[idx]>>)
    /\ idx' = idx + 1
    /\ UNCHANGED <<pc, args, jsonschema, errors, warnings, schema_defs, out, rc, call, input>>

\* lines 335-338
HaltOnLoadErrors ==
    /\ pc = "load"
    /\ idx > Len(YAML_FILES)
    /\ errors # <<>>
    /\ out' = out \o ErrorLines(errors)
    /\ rc' = 1
    /\ pc' = "done"
    /\ UNCHANGED <<idx, args, jsonschema, loaded, errors, warnings, schema_defs, hist, call, input>>

LoadedClean == pc = "load" /\ idx > Len(YAML_FILES) /\ errors = <<>>

\* line 341 false: --skip-schema
SchemaSkipped ==
    /\ LoadedClean
    /\ args.skip_schema
    /\ pc' = "rules"
    /\ idx' = 1
    /\ UNCHANGED <<args, jsonschema, loaded, errors, warnings, schema_defs, out, rc, hist, call, input>>

\* lines 342-343
SchemaUnavailable ==
    /\ LoadedClean
    /\ ~args.skip_schema
    /\ ~jsonschema
    /\ warnings' = Append(warnings, Err("jsonschema_not_installed", "", <<>>))
    /\ pc' = "rules"
    /\ idx' = 1
    /\ UNCHANGED <<args, jsonschema, loaded, errors, schema_defs, out, rc, hist, call, input>>

\* variant: a missing schema.json ends the run like a load failure
SchemaMissing_halt ==
    /\ LoadedClean
    /\ ~args.skip_schema
    /\ jsonschema
    /\ errors' = Append(errors, Err("schema_not_found", "schema.json", <<>>))
    /\ out' = out \o ErrorLines(errors')
    /\ rc' = 1
    /\ pc' = "done"
    /\ UNCHANGED <<idx, args, jsonschema, loaded, warnings, schema_defs, hist, call, input>>

\* lines 344-345: schema.json does not exist
SchemaMissing ==
    /\ LoadedClean
    /\ ~args.skip_schema
    /\ jsonschema
    /\ errors' = Append(errors, Err("schema_not_found", "schema.json", <<>>))
    /\ pc' = "rules"
    /\ idx' = 1
    /\ UNCHANGED <<args, jsonschema, loaded, warnings, schema_defs, out, rc, hist, call, input>>

\* lines 346-348: schema.json is read
SchemaRead ==
    /\ LoadedClean
    /\ ~args.skip_schema
    /\ jsonschema
    /\ \E defs \in SchemaDefChoices : schema_defs' = defs
    /\ pc' = "validate"
    /\ idx' = 1
    /\ UNCHANGED <<args, jsonschema, loaded, errors, warnings, out, rc, hist, call, input>>

\* end of an iteration of the loop at line 349
NextModule ==
    IF idx = Len(YAML_FILES)
    THEN pc' = "rules" /\ idx' = 1
    ELSE pc' = "validate" /\ idx' = idx + 1

\* lines 350-354
SchemaNoDef ==
    /\ pc = "validate"
    /\ YAML_FILES[idx] \notin schema_defs
    /\ warnings' = Append(warnings, Err("no_defs_entry", YAML_FILES[idx], <<>>))
    /\ call' = NoCall
    /\ NextModule
    /\ UNCHANGED <<args, jsonschema, loaded, errors, schema_defs, out, rc, hist, input>>

\* line 355
SchemaValidate ==
    /\ pc = "validate"
    /\ YAML_FILES[idx] \in schema_defs
    /\ \E violations \in 0..MaxViolations :
          /\ errors' = errors \o validate_schema(YAML_FILES[idx], violations)
          /\ call' = [module |-> YAML_FILES[idx], violations |-> violations, before |-> Len(errors)]
    /\ hist' = Append(hist, <<"schema", YAML_FILES[idx]>>)
    /\ NextModule
    /\ UNCHANGED <<args, jsonschema, loaded, warnings, schema_defs, out, rc, input>>

Rules ==
    << "validate_threshold_consistency", "validate_provenance_applicability",
       "validate_temporal_kinetics", "validate_temporal_thresholds",
       "validate_temporal_phase_ids", "validate_phase_alignment",
       "validate_tapvi_and_counts", "validate_mapping_hooks" >>

\* the modules main subscripts out of loaded to build the call's arguments
Needs(n) ==
    CASE n = 1 -> {"cbim_framework", "provenance"}
      [] n = 2 -> {"provenance"}
      [] n \in {3, 4, 5} -> {"temporal_phases"}
      [] n = 6 -> {"temporal_phases", "imaging_cdes"}
      [] n = 7 -> {"imaging_cdes"}
      [] OTHER -> {}

Returned(errs) == [errs |-> errs, raised |-> FALSE]

\* what the n-th call of lines 357-364 appends, and whether it raises
RuleResult(n, files) ==
    CASE n = 1 -> Returned(validate_threshold_consistency(files["cbim_framework"], files["provenance"]))
      [] n = 2 -> Returned(validate_provenance_applicability(files["provenance"]))
      [] n = 3 -> Returned(validate_temporal_kinetics(files["temporal_phases"]))
      [] n = 4 -> Returned(validate_temporal_thresholds(files["temporal_phases"]))
      [] n = 5 -> Returned(validate_temporal_phase_ids(files["temporal_phases"]))
      [] n = 6 -> Returned(validate_phase_alignment(files["temporal_phases"], files["imaging_cdes"]))
      [] n = 7 -> Returned(validate_tapvi_and_counts(files["imaging_cdes"]))
      [] OTHER -> validate_mapping_hooks(files)

\* variant: a rule is called only while the error list is empty
RunRule_unless_errors(n) ==
    /\ pc = "rules"
    /\ idx = n
    /\ call' = NoCall
    /\ IF errors # <<>>
       THEN UNCHANGED <<errors, hist>>
       ELSE /\ errors' = errors \o RuleResult(n, loaded).errs
            /\ hist' = Append(hist, <<"rule", Rules[n]>>)
    /\ IF n = Len(Rules)
       THEN pc' = "report" /\ idx' = idx
       ELSE pc' = "rules" /\ idx' = idx + 1
    /\ UNCHANGED <<args, jsonschema, loaded, warnings, schema_defs, out, rc, input>>

\* one of the calls of lines 357-364; loaded[name] raises KeyError when the
\* module is not in loaded, and the exception leaves main
RunRule(n) ==
    /\ pc = "rules"
    /\ idx = n
    /\ call' = NoCall
    /\ IF ~(Needs(n) \subseteq DOMAIN loaded)
       THEN /\ pc' = "raised"
            /\ UNCHANGED <<idx, errors, hist>>
       ELSE LET result == RuleResult(n, loaded)
            IN  /\ errors' = errors \o result.errs
                /\ hist' = Append(hist, <<"rule", Rules[n]>>)
                /\ IF result.raised
                   THEN pc' = "raised" /\ idx' = idx
                   ELSE IF n = Len(Rules)
                        THEN pc' = "report" /\ idx' = idx
                        ELSE pc' = "rules" /\ idx' = idx + 1
    /\ UNCHANGED <<args, jsonschema, loaded, warnings, schema_defs, out, rc, input>>

ThresholdConsistency == RunRule(1)

ProvenanceApplicability == RunRule(2)

TemporalKinetics == RunRule(3)

TemporalThresholds == RunRule(4)

TemporalPhaseIds == RunRule(5)

PhaseAlignment == RunRule(6)

TapviAndCounts == RunRule(7)

MappingHooks == RunRule(8)

\* variant: warnings fail the run too
Report_warnings_fail ==
    /\ pc = "report"
    /\ out' = out \o WarnLines(warnings)
                  \o (IF errors # <<>> THEN ErrorLines(errors) ELSE OkLines)
    /\ rc' = IF errors # <<>> \/ warnings # <<>> THEN 1 ELSE 0
    /\ pc' = "done"
    /\ UNCHANGED <<idx, args, jsonschema, loaded, errors, warnings, schema_defs, hist, call, input>>

\* lines 366-377
Report ==
    /\ pc = "report"
    /\ out' = out \o WarnLines(warnings)
                  \o (IF errors # <<>> THEN ErrorLines(errors) ELSE OkLines)
    /\ rc' = IF errors # <<>> THEN 1 ELSE 0
    /\ pc' = "done"
    /\ UNCHANGED <<idx, args, jsonschema, loaded, errors, warnings, schema_defs, hist, call, input>>

ConsistencyStage ==
    \/ ThresholdConsistency
    \/ ProvenanceApplicability
    \/ TemporalKinetics
    \/ TemporalThresholds
    \/ TemporalPhaseIds
    \/ PhaseAlignment
    \/ TapviAndCounts
    \/ MappingHooks

Next ==
    \/ LoadMissing
    \/ LoadParseError
    \/ LoadOk
    \/ HaltOnLoadErrors
    \/ SchemaSkipped
    \/ SchemaUnavailable
    \/ SchemaMissing
    \/ SchemaRead
    \/ SchemaNoDef
    \/ SchemaValidate
    \/ ThresholdConsistency
    \/ ProvenanceApplicability
    \/ TemporalKinetics
    \/ TemporalThresholds
    \/ TemporalPhaseIds
    \/ PhaseAlignment
    \/ TapviAndCounts
    \/ MappingHooks
    \/ Report

Spec == Init /\ [][Next]_vars

\* The consistency stage entered with any subset of the modules loaded: the
\* calls of lines 357-364 over a loaded mapping that lacks some modules.
LoadedChoices ==
    { [m \in {x \in Modules : pick[x] > 0} |-> DocVariants(m)[pick[m]]] :
        pick \in {f \in [Modules -> 0..2] : \A m \in Modules : f[m] <= Len(DocVariants(m))} }

InitAbsent ==
    /\ pc = "rules"
    /\ idx = 1
    /\ args = [skip_schema |-> TRUE]
    /\ jsonschema = FALSE
    /\ loaded \in LoadedChoices
    /\ errors = <<>>
    /\ warnings = <<>>
    /\ schema_defs = {}
    /\ out = <<>>
    /\ rc = -1
    /\ hist = <<>>
    /\ call = NoCall
    /\ input = NoInput

NextAbsent == ConsistencyStage \/ Report

SpecAbsent == InitAbsent /\ [][NextAbsent]_vars

----------------------------------------------------------------------------
(* The rule functions called on their own: Init draws the arguments, the    *)
(* single action is the call, which appends to an empty error list.         *)

RuleInit(inputs) ==
    /\ pc = "call"
    /\ idx = 0
    /\ args = [skip_schema |-> FALSE]
    /\ jsonschema = FALSE
    /\ loaded = <<>>
    /\ errors = <<>>
    /\ warnings = <<>>
    /\ schema_defs = {}
    /\ out = <<>>
    /\ rc = -1
    /\ hist = <<>>
    /\ call = NoCall
    /\ input \in inputs

RuleCall(appended) ==
    /\ pc = "call"
    /\ errors' = errors \o appended
    /\ pc' = "returned"
    /\ UNCHANGED <<idx, args, jsonschema, loaded, warnings, schema_defs, out, rc, hist, call, input>>

SeqsUpTo(S, n) == UNION {[1..k -> S] : k \in 0..n}

\* number of entries of the list errs that satisfy Test
Count(errs, Test(_)) == Cardinality({i \in 1..Len(errs) : Test(errs[i])})

(* ---- validate_threshold_consistency ---- *)

VariableItems ==
    [ id : {"gfap_pg_ml", "uchl1_pg_ml", "s100b_pg_ml"},
      ct_threshold : {Absent, Num(60, 0), Num(60, 5), Num(59, 0), Num(720, 0), Num(720, -5)} ]

ThresholdInputs ==
    [ cbim : [variables : SeqsUpTo(VariableItems, MaxVars)],
      provenance :
        [ threshold_provenance :
            [ gfap_ct_threshold :
                [value : {Absent, None, Num(60, 0), Num(60, -5), Num(60, 20), Num(720, 0)}],
              uchl1_ct_threshold :
                [value : {Absent, None, Num(720, 0), Num(720, 5), Num(720, -20), Num(60, 0)}] ] ] ]

InitThreshold == RuleInit(ThresholdInputs)

CallThreshold == RuleCall(validate_threshold_consistency(input.cbim, input.provenance))

SpecThreshold == InitThreshold /\ [][CallThreshold]_vars

(* ---- validate_temporal_kinetics ---- *)

ScalarValues == {Absent, None, IntV(24), IntV(8), ListV(<<24, 36>>)}

RangeValues == {Absent, None, ListV(<<24, 36>>), ListV(<<7, 9>>), IntV(24)}

KineticsInputs ==
    { [ phases |-> [ subacute |->
          [ key_biomarker_windows |->
              [ gfap_clearance_half_life_hours |-> gs,
                gfap_clearance_half_life_range_hours |-> gr,
                uchl1_clearance_half_life_hours |-> us,
                uchl1_clearance_half_life_range_hours |-> ur,
                other |-> o ],
            biomarker_clearance_kinetics |-> [gfap |-> cg, uchl1 |-> cu] ] ] ] :
        gs \in ScalarValues, gr \in RangeValues, us \in ScalarValues, ur \in RangeValues,
        o \in {Absent, IntV(72)}, cg \in RangeValues, cu \in RangeValues }

InitKinetics == RuleInit({[temporal |-> t] : t \in KineticsInputs})

CallKinetics == RuleCall(validate_temporal_kinetics(input.temporal))

SpecKinetics == InitKinetics /\ [][CallKinetics]_vars

(* ---- validate_phase_alignment ---- *)

AlignmentPhaseIds == {"acute", "chronic"}

IdLists == SeqsUpTo(AlignmentPhaseIds, MaxIds)

\* a section holds no element or one element with a temporal_phases list
Sections == {<<>>} \cup {<< Cde("cde", refs) >> : refs \in SeqsUpTo(AlignmentPhaseIds, MaxRefs)}

AlignmentInputs ==
    [ temporal : [schema_contract : [canonical_phase_ids : IdLists]],
      imaging : [ schema_contract : [canonical_phase_ids : IdLists],
                  core_cdes : Sections,
                  supplementary_cdes : Sections ] ]

InitAlignment == RuleInit(AlignmentInputs)

CallAlignment == RuleCall(validate_phase_alignment(input.temporal, input.imaging))

SpecAlignment == InitAlignment /\ [][CallAlignment]_vars

(* ---- validate_tapvi_and_counts ---- *)

Special(present, id) == IF present THEN << Cde(id, <<>>) >> ELSE <<>>

SupplementaryLists ==
    { IF front
      THEN Special(tapvi, "tapvi") \o Special(tamvi, "tamvi") \o Cdes(others, <<>>)
      ELSE Cdes(others, <<>>) \o Special(tamvi, "tamvi") \o Special(tapvi, "tapvi") :
        front \in BOOLEAN, tapvi \in BOOLEAN, tamvi \in BOOLEAN, others \in 0..MaxOther }

CountsInputs ==
    [ imaging : [ core_cdes : {Cdes(n, <<>>) : n \in 0..MaxCore},
                  supplementary_cdes : SupplementaryLists ] ]

InitCounts == RuleInit(CountsInputs)

CallCounts == RuleCall(validate_tapvi_and_counts(input.imaging))

SpecCounts == InitCounts /\ [][CallCounts]_vars

----------------------------------------------------------------------------
(* Properties of the rule functions *)

One(b) == IF b THEN 1 ELSE 0

(* ---- C6 ---- *)

\* the ct_threshold of the first entry of the list whose id is analyte_id
FirstEntry(variables, analyte_id) ==
    IF \E i \in 1..Len(variables) : variables[i].id = analyte_id
    THEN LET i == CHOOSE j \in 1..Len(variables) :
                     /\ variables[j].id = analyte_id
                     /\ \A h \in 1..(j - 1) : variables[h].id # analyte_id
         IN  variables[i].ct_threshold
    ELSE Absent

\* the four lookups: file, analyte, value found, expected constant in halves
ThresholdLookups ==
    << [ file |-> "cbim_framework.yaml", analyte |-> "gfap_pg_ml", half |-> 60,
         value |-> FirstEntry(input.cbim.variables, "gfap_pg_ml") ],
       [ file |-> "cbim_framework.yaml", analyte |-> "uchl1_pg_ml", half |-> 720,
         value |-> FirstEntry(input.cbim.variables, "uchl1_pg_ml") ],
       [ file |-> "provenance.yaml", analyte |-> "gfap_pg_ml", half |-> 60,
         value |-> input.provenance.threshold_provenance.gfap_ct_threshold.value ],
       [ file |-> "provenance.yaml", analyte |-> "uchl1_pg_ml", half |-> 720,
         value |-> input.provenance.threshold_provenance.uchl1_ct_threshold.value ] >>

\* "missing", "mismatch" or "ok": the value against 30.0 resp. 360.0 within 1e-9
LookupOutcome(l) ==
    IF l.value.k \in {"absent", "none"}
    THEN "missing"
    ELSE IF l.value.c = l.half /\ l.value.e <= 10 /\ l.value.e >= -10
         THEN "ok"
         ELSE "mismatch"

ThresholdErrorsOf(l, kind) ==
    Count(errors, LAMBDA e : e[1] = kind /\ e[2] = l.file /\ e[3][1] = l.analyte)

\* C6: validate_threshold_consistency emits, for each of the four lookups
\* (first matching entry of the framework's variable list for gfap and uchl1,
\* the two provenance values), exactly one "missing" error when the value is
\* missing, exactly one "mismatch" error naming the value when it is present
\* but not within 1e-9 of 30.0 resp. 360.0, and nothing otherwise; the total is
\* the number of failing lookups, between 0 and 4.
C6_ThresholdLookupsIndependent ==
    pc = "returned" =>
        /\ \A i \in 1..4 :
              LET l == ThresholdLookups[i]
              IN  /\ ThresholdErrorsOf(l, "missing") = One(LookupOutcome(l) = "missing")
                  /\ ThresholdErrorsOf(l, "mismatch") = One(LookupOutcome(l) = "mismatch")
                  /\ LookupOutcome(l) = "mismatch" =>
                        \E j \in 1..Len(errors) :
                            /\ errors[j][1] = "mismatch"
                            /\ errors[j][2] = l.file
                            /\ errors[j][3] = <<l.analyte, l.value, Num(l.half, 0)>>
        /\ Len(errors) = Cardinality({i \in 1..4 : LookupOutcome(ThresholdLookups[i]) # "ok"})
        /\ Len(errors) <= 4

\* the framework lists gfap twice, 29.5 first and 30.0 second, and the first decides
C6_Witness ==
    /\ pc = "returned"
    /\ Len(input.cbim.variables) = 2
    /\ input.cbim.variables[1] = [id |-> "gfap_pg_ml", ct_threshold |-> Num(59, 0)]
    /\ input.cbim.variables[2] = [id |-> "gfap_pg_ml", ct_threshold |-> Num(60, 0)]
    /\ input.provenance.threshold_provenance.gfap_ct_threshold.value = Num(60, -5)
    /\ input.provenance.threshold_provenance.uchl1_ct_threshold.value = Num(720, 0)
    /\ Len(errors) = 2
    /\ errors[1] = Err("mismatch", "cbim_framework.yaml", <<"gfap_pg_ml", Num(59, 0), Num(60, 0)>>)
    /\ errors[2][1] = "missing"

(* ---- C5 ---- *)

KineticsWindows == input.temporal.phases.subacute.key_biomarker_windows

KineticsClearance == input.temporal.phases.subacute.biomarker_clearance_kinetics

\* the legacy container is present and non-empty
LegacyShape == \E key \in DOMAIN KineticsWindows : KineticsWindows[key] # Absent

LegacyExpected ==
    [ gfap_clearance_half_life_hours |-> IntV(24),
      gfap_clearance_half_life_range_hours |-> ListV(<<24, 36>>),
      uchl1_clearance_half_life_hours |-> IntV(8),
      uchl1_clearance_half_life_range_hours |-> ListV(<<7, 9>>) ]

ClearanceExpected == [gfap |-> ListV(<<24, 36>>), uchl1 |-> ListV(<<7, 9>>)]

MissingOrDifferent(value, expected) == value \in {Absent, None} \/ value # expected

LegacyErrorsOf(key) ==
    Count(errors, LAMBDA e : \/ e[1] = "missing_window" /\ e[3] = <<key>>
                             \/ e[1] = "kinetics_mismatch" /\ e[2] = key)

ClearanceErrorsOf(analyte) ==
    Count(errors, LAMBDA e : \/ e[1] = "missing_clearance" /\ e[3] = <<analyte>>
                             \/ e[1] = "range_mismatch" /\ e[2] = analyte)

\* C5: validate_temporal_kinetics, when key_biomarker_windows is present and
\* non-empty, emits exactly one error per legacy key that is missing or differs
\* from 24, [24,36], 8, [7,9] and none about biomarker_clearance_kinetics; when
\* it is absent or empty, exactly one error per analyte whose half_life_hours is
\* missing or differs from [24,36] resp. [7,9] and no legacy-key error.
C5_KineticsShapesExclusive ==
    pc = "returned" =>
        IF LegacyShape
        THEN /\ \A key \in DOMAIN LegacyExpected :
                   LegacyErrorsOf(key)
                       = One(MissingOrDifferent(KineticsWindows[key], LegacyExpected[key]))
             /\ \A analyte \in DOMAIN ClearanceExpected : ClearanceErrorsOf(analyte) = 0
             /\ Len(errors) = Cardinality({key \in DOMAIN LegacyExpected :
                                  MissingOrDifferent(KineticsWindows[key], LegacyExpected[key])})
        ELSE /\ \A analyte \in DOMAIN ClearanceExpected :
                   ClearanceErrorsOf(analyte)
                       = One(MissingOrDifferent(KineticsClearance[analyte],
                                                ClearanceExpected[analyte]))
             /\ \A key \in DOMAIN LegacyExpected : LegacyErrorsOf(key) = 0
             /\ Len(errors) = Cardinality({analyte \in DOMAIN ClearanceExpected :
                                  MissingOrDifferent(KineticsClearance[analyte],
                                                     ClearanceExpected[analyte])})

\* a legacy container with one wrong key and one missing key, over a clearance
\* container that would fail both v3 checks
C5_Witness ==
    /\ pc = "returned"
    /\ KineticsWindows["gfap_clearance_half_life_hours"] = IntV(8)
    /\ KineticsWindows["gfap_clearance_half_life_range_hours"] = ListV(<<24, 36>>)
    /\ KineticsWindows["uchl1_clearance_half_life_hours"] = IntV(8)
    /\ KineticsWindows["uchl1_clearance_half_life_range_hours"] = Absent
    /\ KineticsClearance.gfap = Absent
    /\ KineticsClearance.uchl1 = IntV(24)
    /\ Len(errors) = 2
    /\ errors[1][1] = "kinetics_mismatch"
    /\ errors[2][1] = "missing_window"

(* ---- C7 ---- *)

PhaseRank(id) == CHOOSE i \in 1..Len(PhaseUniverse) : PhaseUniverse[i] = id

\* ids referenced by a core or supplementary element and not canonical in temporal
UnknownReferences ==
    { id \in AlignmentPhaseIds :
        /\ \E section \in {input.imaging.core_cdes, input.imaging.supplementary_cdes} :
              \E i \in 1..Len(section) :
                  \E j \in 1..Len(section[i].temporal_phases) :
                      section[i].temporal_phases[j] = id
        /\ \A i \in 1..Len(input.temporal.schema_contract.canonical_phase_ids) :
              input.temporal.schema_contract.canonical_phase_ids[i] # id }

\* each member of S once, in increasing order
SortedListing(list, S) ==
    /\ Len(list) = Cardinality(S)
    /\ \A id \in S : \E i \in 1..Len(list) : list[i] = id
    /\ \A i \in 1..(Len(list) - 1) : PhaseRank(list[i]) < PhaseRank(list[i + 1])

\* C7: validate_phase_alignment emits exactly one alignment error iff the two
\* canonical_phase_ids lists differ as ordered sequences, and exactly one
\* unknown-reference error iff some temporal_phases entry of a core or
\* supplementary element is outside the temporal module's canonical ids, that
\* error listing each such id once, sorted; it emits nothing else.
C7_AlignmentAndUnknownReferences ==
    pc = "returned" =>
        /\ Count(errors, LAMBDA e : e[1] = "phase_mismatch")
              = One(input.temporal.schema_contract.canonical_phase_ids
                        # input.imaging.schema_contract.canonical_phase_ids)
        /\ Count(errors, LAMBDA e : e[1] = "unknown_phase_ids") = One(UnknownReferences # {})
        /\ \A i \in 1..Len(errors) :
              errors[i][1] = "unknown_phase_ids" => SortedListing(errors[i][3], UnknownReferences)
        /\ Len(errors) = One(input.temporal.schema_contract.canonical_phase_ids
                                # input.imaging.schema_contract.canonical_phase_ids)
                         + One(UnknownReferences # {})

\* the two lists are reorderings of each other and every reference is canonical
C7_Witness ==
    /\ pc = "returned"
    /\ input.temporal.schema_contract.canonical_phase_ids = <<"acute", "chronic">>
    /\ input.imaging.schema_contract.canonical_phase_ids = <<"chronic", "acute">>
    /\ input.imaging.core_cdes = << Cde("cde", <<"chronic", "acute">>) >>
    /\ errors = << Err("phase_mismatch", "temporal_phases.yaml", <<"imaging_cdes.yaml">>) >>

(* ---- C8 ---- *)

SupplementaryHas(id) ==
    \E i \in 1..Len(input.imaging.supplementary_cdes) : input.imaging.supplementary_cdes[i].id = id

\* C8: validate_tapvi_and_counts emits one error for each of the four conditions
\* that holds (core length is not 9, supplementary length is not 18, no
\* supplementary id is tapvi, some supplementary id is tamvi) and nothing else.
C8_CountsAndIdentifiersIndependent ==
    pc = "returned" =>
        /\ Count(errors, LAMBDA e : e[1] = "core_count") = One(Len(input.imaging.core_cdes) # 9)
        /\ Count(errors, LAMBDA e : e[1] = "supplementary_count")
              = One(Len(input.imaging.supplementary_cdes) # 18)
        /\ Count(errors, LAMBDA e : e[1] = "tapvi_missing") = One(~SupplementaryHas("tapvi"))
        /\ Count(errors, LAMBDA e : e[1] = "tamvi_present") = One(SupplementaryHas("tamvi"))
        /\ Len(errors) = One(Len(input.imaging.core_cdes) # 9)
                         + One(Len(input.imaging.supplementary_cdes) # 18)
                         + One(~SupplementaryHas("tapvi"))
                         + One(SupplementaryHas("tamvi"))

\* 9 core and 17 supplementary elements, tapvi present, tamvi absent
C8_Witness ==
    /\ pc = "returned"
    /\ Len(input.imaging.core_cdes) = 9
    /\ Len(input.imaging.supplementary_cdes) = 17
    /\ SupplementaryHas("tapvi")
    /\ ~SupplementaryHas("tamvi")
    /\ errors = << Err("supplementary_count", "imaging_cdes.yaml", <<18, 17>>) >>

----------------------------------------------------------------------------
(* Properties of main *)

Entries(kind) == SelectSeq(hist, LAMBDA h : h[1] = kind)

AllRules ==
    << <<"rule", "validate_threshold_consistency">>,
       <<"rule", "validate_provenance_applicability">>,
       <<"rule", "validate_temporal_kinetics">>,
       <<"rule", "validate_temporal_thresholds">>,
       <<"rule", "validate_temporal_phase_ids">>,
       <<"rule", "validate_phase_alignment">>,
       <<"rule", "validate_tapvi_and_counts">>,
       <<"rule", "validate_mapping_hooks">> >>

AllLoads ==
    << <<"load", "cbim_framework">>, <<"load", "clinical_entities">>,
       <<"load", "imaging_cdes">>, <<"load", "temporal_phases">>,
       <<"load", "provenance">>, <<"load", "implementation_science">>,
       <<"load", "methodology_extraction">> >>

IsPrefix(a, b) == Len(a) <= Len(b) /\ SubSeq(b, 1, Len(a)) = a

(* ---- C1 ---- *)

\* the modules whose load was attempted so far
Attempted == IF pc = "load" THEN {YAML_FILES[i] : i \in 1..(idx - 1)} ELSE Modules

FailedLoads == Attempted \ DOMAIN loaded

LoadErrorsOf(m) ==
    Count(errors, LAMBDA e : e[1] \in {"missing_file", "parse_error"} /\ e[2] = m)

\* C1: all seven load attempts are made, in order, before main decides to halt;
\* exactly one error is recorded per module that failed to load and none for a
\* module that loaded; if some module failed the run ends with exit code 1
\* right after printing those errors, with no schema check and no rule run.
C1_LoadFailuresHaltAfterAllAttempts ==
    /\ pc = "load" => Entries("load") = SubSeq(AllLoads, 1, idx - 1)
    /\ pc # "load" => IsPrefix(AllLoads, hist)
    /\ pc \in {"load", "done"} =>
          \A m \in Modules : LoadErrorsOf(m) = One(m \in FailedLoads)
    /\ FailedLoads # {} =>
          /\ pc \in {"load", "done"}
          /\ hist = Entries("load")
          /\ Len(errors) = Cardinality(FailedLoads)
          /\ pc = "done" => rc = 1 /\ out = ErrorLines(errors)
          /\ pc = "load" => rc = -1 /\ out = <<>>

\* imaging_cdes is missing and provenance fails to parse; the run has halted
C1_Witness ==
    /\ pc = "done"
    /\ rc = 1
    /\ DOMAIN loaded = Modules \ {"imaging_cdes", "provenance"}
    /\ errors = << Err("missing_file", "imaging_cdes", <<>>),
                   Err("parse_error", "provenance", <<>>) >>
    /\ Len(out) = 2
    /\ Len(hist) = 7

(* ---- C2 ---- *)

SchemaFileMissing == \E i \in 1..Len(errors) : errors[i][1] = "schema_not_found"

C3_ExitCodeIffNoErrors ==
    /\ pc = "done" =>
          /\ rc \in {0, 1}
          /\ rc = 0 <=> errors = <<>>
          /\ Count(out, LAMBDA l : l[1] = "OK") = (IF rc = 0 THEN 2 ELSE 0)
          /\ rc = 0 => SubSeq(out, Len(out) - 1, Len(out)) = OkLines
          /\ Count(out, LAMBDA l : l[1] = "ERROR") = Len(errors)
    /\ pc # "done" => rc = -1 /\ out = <<>>

\* a clean bundle checked without the validation library: one warning, exit 0
C3_Witness ==
    /\ pc = "done"
    /\ rc = 0
    /\ Len(warnings) = 1
    /\ out = WarnLines(warnings) \o OkLines

(* ---- C4 ---- *)

SchemaStageErrors == SelectSeq(errors, LAMBDA e : e[1] \in {"schema", "schema_not_found"})

\* what the eight rules produce, each on its own arguments
ConsistencyErrors ==
    validate_threshold_consistency(loaded["cbim_framework"], loaded["provenance"])
    \o validate_provenance_applicability(loaded["provenance"])
    \o validate_temporal_kinetics(loaded["temporal_phases"])
    \o validate_temporal_thresholds(loaded["temporal_phases"])
    \o validate_temporal_phase_ids(loaded["temporal_phases"])
    \o validate_phase_alignment(loaded["temporal_phases"], loaded["imaging_cdes"])
    \o validate_tapvi_and_counts(loaded["imaging_cdes"])
    \o validate_mapping_hooks(loaded).errs

RulesRanOnceInOrder ==
    /\ pc \notin {"load", "validate"} /\ DOMAIN loaded = Modules =>
          /\ pc = "rules" => Entries("rule") = SubSeq(AllRules, 1, idx - 1)
          /\ pc \in {"report", "done"} =>
                /\ Entries("rule") = AllRules
                /\ errors = SchemaStageErrors \o ConsistencyErrors
    /\ \A i \in 1..Len(hist) : \A j \in 1..Len(hist) :
          i < j /\ hist[i][1] = "rule" => hist[j][1] = "rule"
    /\ pc \in {"load", "validate"} => Entries("rule") = <<>>

\* C4: in a run where all seven modules load, each of the eight rules executes
\* exactly once, in the order of main, after the schema stage and whatever
\* errors were recorded before it; no step removes or rewrites an entry of the
\* error list, so the consistency errors are the concatenation of what each
\* rule produces on its own arguments.
C4_AllRulesRunAppendOnly ==
    /\ []RulesRanOnceInOrder
    /\ [][IsPrefix(errors, errors')]_vars

\* the schema stage recorded errors and the rules still ran and added theirs
C4_Witness ==
    /\ pc = "report"
    /\ DOMAIN loaded = Modules
    /\ Len(SchemaStageErrors) >= 2
    /\ Len(ConsistencyErrors) >= 4
    /\ Entries("rule") = AllRules

(* ---- C9 ---- *)

\* C9 as stated: a validate_schema call on a module whose document has k
\* violations appends k schema errors.
C9_OneErrorPerViolation ==
    call.module # "" => Len(errors) = call.before + call.violations

\* C9 amended: a validate_schema call appends exactly one schema error when the
\* module's document has at least one violation, however many, and none when
\* it conforms.
C9_OneErrorPerViolatingModule ==
    call.module # "" =>
        /\ Len(errors) = call.before + One(call.violations > 0)
        /\ call.violations > 0 => errors[Len(errors)] = Err("schema", call.module, <<>>)
        /\ Count(errors, LAMBDA e : e[1] = "schema" /\ e[2] = call.module)
              = One(call.violations > 0)

\* a document with two violations has just been validated
C9_Witness ==
    /\ call.module = "imaging_cdes"
    /\ call.violations = 2
    /\ Len(errors) = call.before + 1
    /\ errors[Len(errors)] = Err("schema", "imaging_cdes", <<>>)

(* ---- C10 ---- *)

\* the modules a rule call reads
Reads(n) ==
    CASE n = 1 -> {"cbim_framework", "provenance"}
      [] n = 2 -> {"provenance"}
      [] n = 3 -> {"temporal_phases"}
      [] n = 4 -> {"temporal_phases"}
      [] n = 5 -> {"temporal_phases"}
      [] n = 6 -> {"temporal_phases", "imaging_cdes"}
      [] n = 7 -> {"imaging_cdes"}
      [] OTHER -> {"cbim_framework", "clinical_entities", "imaging_cdes", "provenance",
                   "implementation_science"}

\* the rules that read a module absent from loaded
Starved == {n \in 1..8 : ~(Reads(n) \subseteq DOMAIN loaded)}

====
